---- MODULE Spec2Model ----
(***************************************************************************)
(* FTP2NetDrive, src/ftp_server.py: the start-up sequence of main(), the   *)
(* per-class cached pyOpenSSL context of                                   *)
(* ConfiguredFTPHandler.get_ssl_context, and the manual implicit-TLS       *)
(* handshake loop of ConfiguredFTPHandler.__init__.                        *)
(***************************************************************************)
EXTENDS Integers, FiniteSets, Sequences, TLC

\* ------------------------------------------------------------------ bounds
\* Connections accepted during one run of the server.
NConn == 2
\* The handler's class attribute `timeout` (line 48), in clock ticks.
timeout == 2
\* How many times one handshake may report WantReadError.
MaxWaits == 2
\* SSL.Context objects the harness of get_ssl_context may construct.
MaxCtx == 3
\* Threads of the harness that call get_ssl_context.
NThreads == 2
\* Source addresses the connection gate tracks individually.
NAddr == 2

\* ------------------------------------------------- configured ceilings
\* server.max_cons = 256
max_cons == 256
\* A server configured with one more slot per address.
max_cons_per_ip_off == 5 + 1
\* server.max_cons_per_ip = 5
max_cons_per_ip == 5

Conns == 1..NConn
Threads == 1..NThreads
Addrs == 1..NAddr

\* Python's None, and the identity of the n-th SSL.Context object constructed.
None == <<>>
Ctx(n) == <<n>>

VARIABLES
  args,                  \* the parsed command line (argparse namespace)
  pem,                   \* what the certificate/key files on disk are worth
  mpc,                   \* main(): control point
  listening,             \* the ThreadedFTPServer's listening socket exists
  implicit_tls,          \* handler.implicit_tls
  tls_control_required,  \* handler.tls_control_required
  tls_data_required,     \* handler.tls_data_required
  ssl_context,           \* ConfiguredFTPHandler._ssl_context (None: attribute absent)
  nextCtx,               \* SSL.Context objects constructed so far
  retained,              \* history: every context ever stored in _ssl_context
  partial,               \* history: contexts whose construction raised
  builders,              \* history: callers that executed SSL.Context(...)
  conns,                 \* per connection: the state of ConfiguredFTPHandler.__init__
  tpc, tret, tsaw,       \* harness threads calling get_ssl_context
  gateGlobal, gateAddr, gateFresh, gateLast,  \* the connection gate
  auth_args,             \* --user, --password, --allow-anonymous as parsed
  apc,                   \* main(): whether the authorizer has been filled
  user_table,            \* the authorizer's entries
  startup_table,         \* history: the entries as main() left them
  lookup                 \* history: the last lookup and what it returned

ctxVars == <<ssl_context, nextCtx, retained, partial, builders>>
mainVars == <<args, mpc, listening, implicit_tls, tls_control_required, tls_data_required>>
harnessVars == <<tpc, tret, tsaw>>
gateVars == <<gateGlobal, gateAddr, gateFresh, gateLast>>
authVars == <<auth_args, apc, user_table, startup_table, lookup>>
vars == <<args, pem, mpc, listening, implicit_tls, tls_control_required,
          tls_data_required, ssl_context, nextCtx, retained, partial, builders,
          conns, tpc, tret, tsaw, gateGlobal, gateAddr, gateFresh, gateLast,
          auth_args, apc, user_table, startup_table, lookup>>

\* ------------------------------------------------------- get_ssl_context
PemStates == {"ok", "badkey", "badcert", "mismatch"}

\* `hasattr(cls, '_ssl_context')` with every call constructing anew.
hasattr_never(cache) == FALSE
\* line 83: hasattr(cls, '_ssl_context')
hasattr_ssl_context(cache) == cache # None

\* lines 88-90: use_privatekey_file, use_certificate_file, check_privatekey;
\* the first of them that raises, or "ok".
BuildOutcome(p) ==
  CASE p = "badkey"   -> "use_privatekey_file"
    [] p = "badcert"  -> "use_certificate_file"
    [] p = "mismatch" -> "check_privatekey"
    [] OTHER          -> "ok"

\* The assignment to cls._ssl_context made before the files are loaded.
CacheAfterBuild_early(cache, ctx, p) == ctx
\* line 91, reached only when nothing above it raised: cls._ssl_context = ctx
CacheAfterBuild(cache, ctx, p) ==
  IF BuildOutcome(p) = "ok" THEN ctx ELSE cache

\* lines 83-96 run without interruption: the new value of the cache, the value
\* returned, and whether a context was constructed.
get_ssl_context(cache, n, p) ==
  IF hasattr_ssl_context(cache)
    THEN [cache |-> cache, ret |-> cache, built |-> FALSE, failed |-> FALSE]
    ELSE LET c2 == CacheAfterBuild(cache, Ctx(n + 1), p)
         IN  [cache  |-> c2,
              ret    |-> IF BuildOutcome(p) = "ok" THEN c2 ELSE None,
              built  |-> TRUE,
              failed |-> BuildOutcome(p) # "ok"]

\* The effect of one uninterrupted call by `who` on the class state.
CallGetSslContext(who, r) ==
  /\ ssl_context' = r.cache
  /\ nextCtx' = IF r.built THEN nextCtx + 1 ELSE nextCtx
  /\ retained' = IF r.cache # None THEN retained \cup {r.cache} ELSE retained
  /\ partial' = IF r.failed THEN partial \cup {Ctx(nextCtx + 1)} ELSE partial
  /\ builders' = IF r.built THEN builders \cup {who} ELSE builders

\* ------------------------------------------------------------------ main
FtpsModes == {"none", "explicit", "implicit"}

\* line 121: args.certfile and args.keyfile
CertsGiven(a) == a.certfile /\ a.keyfile
\* lines 117, 124-125
ImplicitTls(a) == CertsGiven(a) /\ a.ftps_mode = "implicit"
\* Enforcement only when --ftps-mode explicit is given.
ExplicitRequired_only_explicit(a) == CertsGiven(a) /\ a.ftps_mode = "explicit"
\* lines 118-119, 126-128
ExplicitRequired(a) == CertsGiven(a) /\ a.ftps_mode # "implicit"

\* A start-up that goes on whatever get_ssl_context returned.
StartupContextOk_ignored(ret) == TRUE
\* line 146: `if not handler.get_ssl_context(): ... return`
StartupContextOk(ret) == ret # None

\* line 145
TlsRequired == implicit_tls \/ tls_control_required

NewConn ==
  [pc |-> "none", closed |-> FALSE, sslCtx |-> None, handed |-> "none",
   superCalls |-> 0, hsDone |-> FALSE, failure |-> "none",
   waits |-> 0, waited |-> 0, curWait |-> 0, attempts |-> 0, wantReads |-> 0]

\* No lookup has been made.
NoLookup == [made |-> FALSE, anonymous |-> FALSE, username |-> "", password |-> "",
             result |-> {}]

InitServer ==
  /\ args \in [drive_ok : BOOLEAN, certfile : BOOLEAN, keyfile : BOOLEAN,
               ftps_mode : FtpsModes]
  /\ pem \in PemStates
  /\ mpc = "args"
  /\ listening = FALSE
  /\ implicit_tls = FALSE
  /\ tls_control_required = FALSE
  /\ tls_data_required = FALSE
  /\ ssl_context = None
  /\ nextCtx = 0
  /\ retained = {}
  /\ partial = {}
  /\ builders = {}
  /\ conns = [c \in Conns |-> NewConn]
  /\ tpc = [t \in Threads |-> "idle"]
  /\ tret = [t \in Threads |-> None]
  /\ tsaw = [t \in Threads |-> "none"]
  /\ gateGlobal = 0
  /\ gateAddr = [a \in Addrs |-> 0]
  /\ gateFresh = 0
  /\ gateLast = [op |-> "none", addr |-> 0, refill |-> FALSE]
  /\ apc = "args"
  /\ user_table = {}
  /\ startup_table = {}
  /\ lookup = NoLookup

\* A start with none of --user, --password, --allow-anonymous.
Init ==
  /\ InitServer
  /\ auth_args = [user |-> "", password |-> "", allow_anonymous |-> FALSE]

\* lines 112-128: the drive check and the handler's TLS flags.
MainConfigure ==
  /\ mpc = "args"
  /\ IF ~args.drive_ok
       THEN /\ mpc' = "exited"
            /\ UNCHANGED <<implicit_tls, tls_control_required, tls_data_required>>
       ELSE /\ mpc' = "configured"
            /\ implicit_tls' = ImplicitTls(args)
            /\ tls_control_required' = ExplicitRequired(args)
            /\ tls_data_required' = ExplicitRequired(args)
  /\ UNCHANGED <<args, pem, listening, ctxVars, conns, harnessVars, gateVars, authVars>>

\* lines 139-143: ThreadedFTPServer(address, handler) binds and listens.
MainCreateServer ==
  /\ mpc = "configured"
  /\ listening' = TRUE
  /\ mpc' = "created"
  /\ UNCHANGED <<args, pem, implicit_tls, tls_control_required, tls_data_required,
                 ctxVars, conns, harnessVars, gateVars, authVars>>

\* lines 145-151: the start-up context check, then serve_forever.
MainCheckContext ==
  /\ mpc = "created"
  /\ IF TlsRequired
       THEN LET r == get_ssl_context(ssl_context, nextCtx, pem)
            IN  /\ CallGetSslContext(<<"main">>, r)
                /\ mpc' = IF StartupContextOk(r.ret) THEN "serving" ELSE "exited"
       ELSE /\ mpc' = "serving"
            /\ UNCHANGED ctxVars
  /\ UNCHANGED <<args, pem, listening, implicit_tls, tls_control_required,
                 tls_data_required, conns, harnessVars, gateVars, authVars>>

\* -------------------------------------------- ConfiguredFTPHandler.__init__
\* The exceptions the bootstrap can meet: RuntimeError (line 42), the pyOpenSSL
\* errors of do_handshake (line 52), TimeoutError (line 58), and OSError of
\* conn.getpeername() (line 35).  All are subclasses of Exception.
HandshakeErrors == {"WantWriteError", "Error", "SysCallError"}
ExceptionKinds == HandshakeErrors \cup {"RuntimeError", "TimeoutError", "OSError"}

\* A handler written `except SSL.Error`.
Caught_ssl_only(kind) == kind \in HandshakeErrors
\* line 64: `except Exception as e`
Caught(kind) == kind \in ExceptionKinds

\* An except block without its `return`.
ReturnsAfterFailure_fallthrough == FALSE
\* line 69: `return`
ReturnsAfterFailure == TRUE

\* A bootstrap that forgets to rebind `conn`.
SecuredConn_raw == "raw"
\* line 62: conn = ssl_conn
SecuredConn == "ssl"

\* A bootstrap that handshakes whatever the mode.
UsesManualHandshake_always(impl) == TRUE
\* line 37: `if self.implicit_tls`
UsesManualHandshake(impl) == impl

\* A wait one tick longer than the configured timeout.
select_timeout_long == timeout + 1
\* lines 48, 56: the timeout handed to select.select
select_timeout == timeout

\* lines 71-72: super().__init__(conn, server, ioloop), then the normal return.
SuperInit(r, conn) ==
  [r EXCEPT !.handed = conn, !.superCalls = @ + 1, !.pc = "returned"]

\* An exception raised inside the try block of lines 39-63: lines 64-69 close the
\* raw transport (conn is rebound only by the last statement of the block) and
\* return; an exception the except clause does not name leaves __init__.
RaisedInTry(r, kind) ==
  IF Caught(kind)
    THEN LET r1 == [r EXCEPT !.closed = TRUE, !.failure = kind]
         IN  IF ReturnsAfterFailure
               THEN [r1 EXCEPT !.pc = "returned"]
               ELSE SuperInit(r1, "raw")
    ELSE [r EXCEPT !.pc = "raised", !.failure = kind]

\* The accept loop calls handler(sock, server): line 33.  Connection c is the
\* c-th one accepted.
Accept(c) ==
  /\ mpc = "serving"
  /\ conns[c].pc = "none"
  /\ \A d \in 1..(c - 1) : conns[d].pc # "none"
  /\ conns' = [conns EXCEPT ![c].pc = "init"]
  /\ UNCHANGED <<args, pem, mpc, listening, implicit_tls, tls_control_required,
                 tls_data_required, ctxVars, harnessVars, gateVars, authVars>>

\* line 35: conn.getpeername() raises (the peer is already gone); the call is
\* outside the try block.
InitRaises(c) ==
  /\ conns[c].pc = "init"
  /\ conns' = [conns EXCEPT ![c] = [@ EXCEPT !.pc = "raised", !.failure = "OSError"]]
  /\ UNCHANGED <<args, pem, mpc, listening, implicit_tls, tls_control_required,
                 tls_data_required, ctxVars, harnessVars, gateVars, authVars>>

\* lines 37, 71-72: no implicit TLS.
InitPassThrough(c) ==
  /\ conns[c].pc = "init"
  /\ ~UsesManualHandshake(implicit_tls)
  /\ conns' = [conns EXCEPT ![c] = SuperInit(@, "raw")]
  /\ UNCHANGED <<args, pem, mpc, listening, implicit_tls, tls_control_required,
                 tls_data_required, ctxVars, harnessVars, gateVars, authVars>>

\* lines 37-48: the context, SSL.Connection(ctx, conn), set_accept_state.
InitImplicit(c) ==
  /\ conns[c].pc = "init"
  /\ UsesManualHandshake(implicit_tls)
  /\ LET r == get_ssl_context(ssl_context, nextCtx, pem)
     IN  /\ CallGetSslContext(<<"conn", c>>, r)
         /\ conns' = [conns EXCEPT ![c] =
               IF r.ret = None
                 THEN RaisedInTry(@, "RuntimeError")
                 ELSE [@ EXCEPT !.pc = "handshake", !.sslCtx = r.ret]]
  /\ UNCHANGED <<args, pem, mpc, listening, implicit_tls, tls_control_required,
                 tls_data_required, harnessVars, gateVars, authVars>>

\* lines 52-53, 61-62, 71-72: do_handshake returns.
HandshakeDone(c) ==
  /\ conns[c].pc = "handshake"
  /\ conns' = [conns EXCEPT ![c] =
        SuperInit([@ EXCEPT !.hsDone = TRUE, !.attempts = @ + 1], SecuredConn)]
  /\ UNCHANGED <<args, pem, mpc, listening, implicit_tls, tls_control_required,
                 tls_data_required, ctxVars, harnessVars, gateVars, authVars>>

\* A loop that retries at once, without waiting for the socket.
AfterWantRead_spin(r) == [r EXCEPT !.pc = "handshake"]
\* lines 54-56: the WantReadError clause enters select.select.
AfterWantRead(r) == [r EXCEPT !.pc = "select", !.waits = @ + 1, !.curWait = 0]

\* lines 52, 54-56: do_handshake raises WantReadError; select.select is entered.
HandshakeWantRead(c) ==
  /\ conns[c].pc = "handshake"
  /\ conns[c].wantReads < MaxWaits
  /\ conns' = [conns EXCEPT ![c] =
        AfterWantRead([@ EXCEPT !.attempts = @ + 1, !.wantReads = @ + 1])]
  /\ UNCHANGED <<args, pem, mpc, listening, implicit_tls, tls_control_required,
                 tls_data_required, ctxVars, harnessVars, gateVars, authVars>>

\* line 52: do_handshake raises anything but WantReadError.
HandshakeFails(c) ==
  /\ conns[c].pc = "handshake"
  /\ \E kind \in HandshakeErrors :
        conns' = [conns EXCEPT ![c] =
           RaisedInTry([@ EXCEPT !.attempts = @ + 1], kind)]
  /\ UNCHANGED <<args, pem, mpc, listening, implicit_tls, tls_control_required,
                 tls_data_required, ctxVars, harnessVars, gateVars, authVars>>

\* line 56: one tick passes inside select.select.
Tick(c) ==
  /\ conns[c].pc = "select"
  /\ conns[c].curWait < select_timeout
  /\ conns' = [conns EXCEPT ![c] =
        [@ EXCEPT !.curWait = @ + 1, !.waited = @ + 1]]
  /\ UNCHANGED <<args, pem, mpc, listening, implicit_tls, tls_control_required,
                 tls_data_required, ctxVars, harnessVars, gateVars, authVars>>

\* lines 56-59: the socket becomes readable before the wait expires.
SelectReadable(c) ==
  /\ conns[c].pc = "select"
  /\ conns[c].curWait < select_timeout
  /\ conns' = [conns EXCEPT ![c] = [@ EXCEPT !.pc = "handshake", !.curWait = 0]]
  /\ UNCHANGED <<args, pem, mpc, listening, implicit_tls, tls_control_required,
                 tls_data_required, ctxVars, harnessVars, gateVars, authVars>>

\* lines 56-58: the wait expires; TimeoutError is raised.
SelectTimeout(c) ==
  /\ conns[c].pc = "select"
  /\ conns[c].curWait >= select_timeout
  /\ conns' = [conns EXCEPT ![c] = RaisedInTry(@, "TimeoutError")]
  /\ UNCHANGED <<args, pem, mpc, listening, implicit_tls, tls_control_required,
                 tls_data_required, ctxVars, harnessVars, gateVars, authVars>>

Next ==
  \/ MainConfigure
  \/ MainCreateServer
  \/ MainCheckContext
  \/ \E c \in Conns : Accept(c)
  \/ \E c \in Conns : InitRaises(c)
  \/ \E c \in Conns : InitPassThrough(c)
  \/ \E c \in Conns : InitImplicit(c)
  \/ \E c \in Conns : HandshakeDone(c)
  \/ \E c \in Conns : HandshakeWantRead(c)
  \/ \E c \in Conns : HandshakeFails(c)
  \/ \E c \in Conns : Tick(c)
  \/ \E c \in Conns : SelectReadable(c)
  \/ \E c \in Conns : SelectTimeout(c)

Spec == Init /\ [][Next]_vars

\* ------------------------------------ get_ssl_context called from threads
\* The statements of get_ssl_context taken one at a time by threads that call it
\* over and over, while the files on disk may be replaced between the steps.
InitCtx ==
  /\ Init
  /\ args = [drive_ok |-> TRUE, certfile |-> TRUE, keyfile |-> TRUE,
             ftps_mode |-> "implicit"]

\* line 78: a thread enters get_ssl_context.
ThreadCall(t) ==
  /\ tpc[t] = "idle"
  /\ nextCtx < MaxCtx
  /\ tpc' = [tpc EXCEPT ![t] = "check"]
  /\ tsaw' = [tsaw EXCEPT ![t] = "none"]
  /\ UNCHANGED <<args, pem, mpc, listening, implicit_tls, tls_control_required,
                 tls_data_required, ctxVars, conns, tret, gateVars, authVars>>

\* line 83: the hasattr test.
ThreadCheck(t) ==
  /\ tpc[t] = "check"
  /\ IF hasattr_ssl_context(ssl_context)
       THEN tpc' = [tpc EXCEPT ![t] = "return"] /\ tsaw' = [tsaw EXCEPT ![t] = "cached"]
       ELSE tpc' = [tpc EXCEPT ![t] = "build"] /\ tsaw' = [tsaw EXCEPT ![t] = "empty"]
  /\ UNCHANGED <<args, pem, mpc, listening, implicit_tls, tls_control_required,
                 tls_data_required, ctxVars, conns, tret, gateVars, authVars>>

\* lines 85-95: the construction; on an exception, `return None`.
ThreadBuild(t) ==
  /\ tpc[t] = "build"
  /\ nextCtx' = nextCtx + 1
  /\ builders' = builders \cup {<<"thread", t>>}
  /\ ssl_context' = CacheAfterBuild(ssl_context, Ctx(nextCtx + 1), pem)
  /\ retained' = IF ssl_context' # None THEN retained \cup {ssl_context'} ELSE retained
  /\ IF BuildOutcome(pem) = "ok"
       THEN /\ tpc' = [tpc EXCEPT ![t] = "return"]
            /\ tsaw' = [tsaw EXCEPT ![t] = "built"]
            /\ UNCHANGED <<partial, tret>>
       ELSE /\ tpc' = [tpc EXCEPT ![t] = "idle"]
            /\ tsaw' = [tsaw EXCEPT ![t] = "failed"]
            /\ partial' = partial \cup {Ctx(nextCtx + 1)}
            /\ tret' = [tret EXCEPT ![t] = None]
  /\ UNCHANGED <<args, pem, mpc, listening, implicit_tls, tls_control_required,
                 tls_data_required, conns, gateVars, authVars>>

\* line 96: return cls._ssl_context
ThreadReturn(t) ==
  /\ tpc[t] = "return"
  /\ tpc' = [tpc EXCEPT ![t] = "idle"]
  /\ tret' = [tret EXCEPT ![t] = ssl_context]
  /\ UNCHANGED <<args, pem, mpc, listening, implicit_tls, tls_control_required,
                 tls_data_required, ctxVars, conns, tsaw, gateVars, authVars>>

\* The certificate or key file is replaced on disk.
PemChange ==
  /\ \E p \in PemStates \ {pem} : pem' = p
  /\ UNCHANGED <<args, mpc, listening, implicit_tls, tls_control_required,
                 tls_data_required, ctxVars, conns, harnessVars, gateVars, authVars>>

NextCtx ==
  \/ \E t \in Threads : ThreadCall(t)
  \/ \E t \in Threads : ThreadCheck(t)
  \/ \E t \in Threads : ThreadBuild(t)
  \/ \E t \in Threads : ThreadReturn(t)
  \/ PemChange

SpecCtx == InitCtx /\ [][NextCtx]_vars

\* -------------------------------------------------------- connection gate
\* The gate's counters under the ceilings that main() configures.  Connections
\* come from the addresses of Addrs, which reconnect, and from addresses that
\* connect once (gateFresh counts those that are open; the per-address count of
\* each is 0 before its admission).
RECURSIVE SumTo(_, _)
SumTo(f, n) == IF n = 0 THEN 0 ELSE f[n] + SumTo(f, n - 1)

\* try_admit: both counters are below their ceilings.
TryAdmit(global, count) == global < max_cons /\ count < max_cons_per_ip

InitGate ==
  /\ Init
  /\ args = [drive_ok |-> TRUE, certfile |-> FALSE, keyfile |-> FALSE,
             ftps_mode |-> "none"]
  /\ pem = "ok"

GateFrame ==
  UNCHANGED <<args, pem, mpc, listening, implicit_tls, tls_control_required,
              tls_data_required, ctxVars, conns, harnessVars, authVars>>

GateAdmit(a) ==
  /\ TryAdmit(gateGlobal, gateAddr[a])
  /\ gateGlobal' = gateGlobal + 1
  /\ gateAddr' = [gateAddr EXCEPT ![a] = @ + 1]
  /\ gateLast' = [op |-> "admitted", addr |-> a, refill |-> gateLast.op = "released"]
  /\ UNCHANGED gateFresh
  /\ GateFrame

GateReject(a) ==
  /\ ~TryAdmit(gateGlobal, gateAddr[a])
  /\ gateLast' = [op |-> "rejected", addr |-> a, refill |-> FALSE]
  /\ UNCHANGED <<gateGlobal, gateAddr, gateFresh>>
  /\ GateFrame

GateAdmitFresh ==
  /\ TryAdmit(gateGlobal, 0)
  /\ gateGlobal' = gateGlobal + 1
  /\ gateFresh' = gateFresh + 1
  /\ gateLast' = [op |-> "admitted", addr |-> 0, refill |-> gateLast.op = "released"]
  /\ UNCHANGED gateAddr
  /\ GateFrame

GateRejectFresh ==
  /\ ~TryAdmit(gateGlobal, 0)
  /\ gateLast' = [op |-> "rejected", addr |-> 0, refill |-> FALSE]
  /\ UNCHANGED <<gateGlobal, gateAddr, gateFresh>>
  /\ GateFrame

\* release(token) of a connection from address a.
GateRelease(a) ==
  /\ gateAddr[a] > 0
  /\ gateGlobal' = gateGlobal - 1
  /\ gateAddr' = [gateAddr EXCEPT ![a] = @ - 1]
  /\ gateLast' = [op |-> "released", addr |-> a, refill |-> FALSE]
  /\ UNCHANGED gateFresh
  /\ GateFrame

GateReleaseFresh ==
  /\ gateFresh > 0
  /\ gateGlobal' = gateGlobal - 1
  /\ gateFresh' = gateFresh - 1
  /\ gateLast' = [op |-> "released", addr |-> 0, refill |-> FALSE]
  /\ UNCHANGED gateAddr
  /\ GateFrame

NextGate ==
  \/ \E a \in Addrs : GateAdmit(a)
  \/ \E a \in Addrs : GateReject(a)
  \/ GateAdmitFresh
  \/ GateRejectFresh
  \/ \E a \in Addrs : GateRelease(a)
  \/ GateReleaseFresh

SpecGate == InitGate /\ [][NextGate]_vars

\* ================================================================ claims
\* The exceptions raised between line 40 and the last do_handshake or select.
TryFailures == HandshakeErrors \cup {"RuntimeError", "TimeoutError"}
Others(c) == Conns \ {c}

\* C1: in implicit-TLS mode every failure of the handshake (timeout, TLS error,
\* peer disconnect, missing context) ends with the raw transport closed and
\* __init__ returning normally; the accept loop keeps serving, and the step on
\* which one connection fails changes no other connection.
C1_HandshakeFailureContained ==
  /\ [](\A c \in Conns : conns[c].failure \in TryFailures =>
          /\ conns[c].closed
          /\ conns[c].pc = "returned"
          /\ mpc = "serving"
          /\ listening)
  /\ [][\A c \in Conns :
          (conns[c].failure = "none" /\ conns'[c].failure \in TryFailures) =>
             /\ \A d \in Others(c) : conns'[d] = conns[d]
             /\ mpc' = mpc
             /\ ssl_context' = ssl_context]_vars

\* C1 witness: one handshake timed out and was closed while another connection
\* completed its handshake and reached the protocol handler.
C1_Witness ==
  \E c \in Conns : \E d \in Others(c) :
     /\ conns[c].failure = "TimeoutError" /\ conns[c].closed
     /\ conns[c].pc = "returned"
     /\ conns[d].handed = "ssl" /\ ~conns[d].closed

C3_HandlerGetsSecuredConn ==
  \A c \in Conns : implicit_tls =>
     /\ conns[c].superCalls <= 1
     /\ (conns[c].superCalls > 0 \/ conns[c].handed # "none") =>
           /\ conns[c].hsDone
           /\ conns[c].handed = "ssl"
           /\ conns[c].sslCtx # None
     /\ (conns[c].pc = "returned" /\ conns[c].failure = "none") =>
           conns[c].superCalls = 1

\* C3 witness: a handshake that completed after a readiness wait was handed on.
C3_Witness ==
  \E c \in Conns :
     /\ implicit_tls
     /\ conns[c].waits >= 1
     /\ conns[c].hsDone
     /\ conns[c].handed = "ssl"
     /\ conns[c].superCalls = 1

\* C4: with explicit or no TLS the bootstrap never handshakes, never waits for
\* readiness, never closes the transport, and what it passes to
\* super().__init__ is the raw transport.
C4_PassThroughUntouched ==
  \A c \in Conns : ~implicit_tls =>
     /\ conns[c].pc \notin {"handshake", "select"}
     /\ conns[c].waits = 0 /\ conns[c].waited = 0
     /\ ~conns[c].hsDone
     /\ conns[c].sslCtx = None
     /\ ~conns[c].closed
     /\ conns[c].failure \notin TryFailures
     /\ conns[c].handed \in {"none", "raw"}
     /\ conns[c].pc = "returned" => (conns[c].handed = "raw" /\ conns[c].superCalls = 1)

\* C4 witness: explicit TLS enforcement, and a connection passed through raw.
C4_Witness ==
  /\ mpc = "serving"
  /\ tls_control_required
  /\ \E c \in Conns : conns[c].pc = "returned" /\ conns[c].handed = "raw"

\* C5: a handshake whose first readiness wait never sees the socket readable
\* fails with TimeoutError when exactly `timeout` has been waited, and the
\* transport is closed; while it waits, no more than `timeout` has elapsed.
C5_TimeoutAfterExactlyTimeout ==
  \A c \in Conns :
     /\ (conns[c].failure = "TimeoutError" /\ conns[c].waits = 1) =>
           conns[c].waited = timeout /\ conns[c].closed
     /\ (conns[c].pc = "select" /\ conns[c].waits = 1) =>
           conns[c].waited <= timeout

\* C5 witness: the first wait expired and the connection was closed.
C5_Witness ==
  \E c \in Conns :
     /\ conns[c].failure = "TimeoutError"
     /\ conns[c].waits = 1
     /\ conns[c].waited = timeout
     /\ conns[c].closed

\* C6: the time one handshake spends in readiness waits, summed over all its
\* retry cycles, never exceeds the configured timeout.
C6_TotalWaitWithinTimeout ==
  \A c \in Conns : conns[c].waited <= timeout

\* C7: at most one context is ever stored in _ssl_context, it is never replaced
\* or removed, at most one construction succeeds, and every SSL.Connection of
\* every handshake is built on that one context.
C7_OneContextForAll ==
  /\ Cardinality(retained) <= 1
  /\ retained # {} => ssl_context \in retained
  /\ nextCtx - Cardinality(partial) <= 1
  /\ \A c \in Conns : conns[c].sslCtx # None => conns[c].sslCtx = ssl_context

\* C7 witness: two handshakes in flight at once on the cached context.
C7_Witness ==
  \E c \in Conns : \E d \in Others(c) :
     /\ conns[c].pc \in {"handshake", "select"}
     /\ conns[d].pc \in {"handshake", "select"}
     /\ ssl_context # None
     /\ conns[c].sslCtx = ssl_context
     /\ conns[d].sslCtx = ssl_context

\* C8: a construction that fails stores nothing (the cache never holds, and no
\* call returns, a context whose construction raised), the failing call returns
\* None and leaves the cache as it found it, and a call that finds the cache
\* empty always goes on to construct.
C8_FailedBuildNotCached ==
  /\ [](/\ ssl_context \notin partial
        /\ \A t \in Threads :
              /\ tret[t] \notin partial
              /\ tsaw[t] = "failed" => tret[t] = None)
  /\ [][\A t \in Threads :
          /\ (tpc[t] = "build" /\ tpc'[t] = "idle") =>
                ssl_context' = ssl_context /\ tret'[t] = None
          /\ (tpc[t] = "check" /\ tpc'[t] # "check" /\ ssl_context = None) =>
                tpc'[t] = "build"]_vars

\* C8 witness: two constructions in a row failed, the second being the retry of
\* a later call, and the cache is still empty.
C8_Witness ==
  /\ Cardinality(partial) >= 2
  /\ ssl_context = None
  /\ \E t \in Threads : tsaw[t] = "failed" /\ tret[t] = None

\* C9: serve_forever is reached only when TLS is not required or the context is
\* cached; a start-up whose required context cannot be built exits; no
\* connection is bootstrapped without the server serving, none meets a missing
\* context, and no connection ever constructs a context.
C9_NoServingWithoutContext ==
  /\ mpc = "serving" => (~TlsRequired \/ ssl_context # None)
  /\ (TlsRequired /\ ssl_context = None /\ partial # {}) => mpc = "exited"
  /\ builders \subseteq {<<"main">>}
  /\ \A c \in Conns :
        /\ conns[c].pc # "none" => mpc = "serving"
        /\ conns[c].failure # "RuntimeError"
        /\ (conns[c].pc # "none" /\ TlsRequired) => ssl_context # None

\* C9 witness: TLS was required, the construction failed at start-up, main exited.
C9_Witness ==
  /\ mpc = "exited"
  /\ TlsRequired
  /\ ssl_context = None
  /\ partial # {}
  /\ \A c \in Conns : conns[c].pc = "none"

\* C10: the gate admits exactly when both counters are below their ceilings,
\* admission and release move both counters together, the global count never
\* exceeds 256 and no address's count exceeds 5, and after a release the
\* releasing address can be admitted again.
C10_GateWithinCeilings ==
  /\ gateGlobal <= 256
  /\ \A a \in Addrs : gateAddr[a] <= 5
  /\ gateGlobal = SumTo(gateAddr, NAddr) + gateFresh
  /\ LET n == IF gateLast.addr = 0 THEN 0 ELSE gateAddr[gateLast.addr]
     IN  /\ gateLast.op = "rejected" => (gateGlobal >= 256 \/ n >= 5)
         /\ gateLast.op = "admitted" =>
               /\ gateGlobal >= 1 /\ gateGlobal - 1 < 256
               /\ gateLast.addr # 0 => (n >= 1 /\ n - 1 < 5)
         /\ gateLast.op = "released" => (gateGlobal < 256 /\ n < 5)

\* C10 witness: with the global count and an address's count at their ceilings
\* a release was followed by an admission that filled the gate again.
C10_Witness ==
  /\ gateLast.op = "admitted"
  /\ gateLast.refill
  /\ gateLast.addr # 0
  /\ gateGlobal = 256
  /\ gateAddr[gateLast.addr] = 5

\* C13: a do_handshake that raises WantWriteError is not a handshake failure:
\* no connection ever fails, and is closed, because of it.
C13_WantWriteIsNotFailure ==
  \A c \in Conns : conns[c].failure # "WantWriteError"

\* C14: a handshake that succeeds after N WantReadError reports has made exactly
\* N select calls, one per report, and N + 1 do_handshake calls, one after each
\* wait; it is not waiting any more and has not failed.
C14_OneWaitPerReport ==
  \A c \in Conns :
     /\ conns[c].waits = conns[c].wantReads
     /\ conns[c].pc \in {"handshake", "select"} => conns[c].attempts = conns[c].waits
     /\ conns[c].hsDone =>
           /\ conns[c].attempts = conns[c].wantReads + 1
           /\ conns[c].pc = "returned"
           /\ conns[c].curWait = 0
           /\ conns[c].failure = "none"

\* C14 witness: success after as many reports as the bound allows.
C14_Witness ==
  \E c \in Conns :
     /\ conns[c].hsDone
     /\ conns[c].wantReads = MaxWaits
     /\ conns[c].waits = MaxWaits
     /\ conns[c].attempts = MaxWaits + 1

\* C17: when TLS is required and the context cannot be built at start-up, no
\* listening socket was ever created.
C17_NoListenerOnContextFailure ==
  (TlsRequired /\ ssl_context = None /\ partial # {}) => ~listening

\* C20: the handler's TLS flags as a function of the options: certificate and
\* key with mode implicit give implicit TLS only; certificate and key with any
\* other mode give enforcement on control and data; a missing certificate or
\* key gives neither.  Implicit and enforcement never hold together, and the
\* data flag equals the control flag.
C20_ModeFromOptions ==
  /\ ~(implicit_tls /\ tls_control_required)
  /\ tls_data_required = tls_control_required
  /\ (mpc # "args" /\ args.drive_ok) =>
        /\ (args.certfile /\ args.keyfile /\ args.ftps_mode = "implicit") =>
              (implicit_tls /\ ~tls_control_required)
        /\ (args.certfile /\ args.keyfile /\ args.ftps_mode \in {"none", "explicit"}) =>
              (~implicit_tls /\ tls_control_required /\ tls_data_required)
        /\ ~(args.certfile /\ args.keyfile) =>
              (~implicit_tls /\ ~tls_control_required /\ ~tls_data_required)

\* C20 witness: certificate and key without --ftps-mode: the server serves with
\* explicit enforcement.
C20_Witness ==
  /\ mpc = "serving"
  /\ args.certfile /\ args.keyfile /\ args.ftps_mode = "none"
  /\ tls_control_required /\ tls_data_required /\ ~implicit_tls

\* C16: when several threads call get_ssl_context while the cache is empty,
\* every call that has returned a context returned the one that is cached: no
\* caller holds a context other than the retained one.
C16_ConcurrentCallersConverge ==
  \A t \in Threads :
     (tpc[t] = "idle" /\ tsaw[t] \in {"built", "cached"}) => tret[t] = ssl_context

\* ------------------------------------------- the handshake loop, unbounded
\* The `while True` loop of lines 49-59 with a peer that may answer WantReadError
\* any number of times.  The counters stop at their bounds; the control flow
\* is that of the loop.
Min(a, b) == IF a < b THEN a ELSE b

\* lines 52, 54-56, with no limit on the number of reports.
LiveWantRead(c) ==
  /\ conns[c].pc = "handshake"
  /\ conns' = [conns EXCEPT ![c] =
        LET r == AfterWantRead([@ EXCEPT !.attempts = Min(@ + 1, MaxWaits),
                                         !.wantReads = Min(@ + 1, MaxWaits),
                                         !.waits = Min(@, MaxWaits - 1)])
        IN  r]
  /\ UNCHANGED <<args, pem, mpc, listening, implicit_tls, tls_control_required,
                 tls_data_required, ctxVars, harnessVars, gateVars, authVars>>

\* line 56: one tick passes inside select.select.
LiveTick(c) ==
  /\ conns[c].pc = "select"
  /\ conns[c].curWait < select_timeout
  /\ conns' = [conns EXCEPT ![c] =
        [@ EXCEPT !.curWait = @ + 1, !.waited = Min(@ + 1, MaxWaits * timeout)]]
  /\ UNCHANGED <<args, pem, mpc, listening, implicit_tls, tls_control_required,
                 tls_data_required, ctxVars, harnessVars, gateVars, authVars>>

NextLive ==
  \/ MainConfigure
  \/ MainCreateServer
  \/ MainCheckContext
  \/ \E c \in Conns : Accept(c)
  \/ \E c \in Conns : InitRaises(c)
  \/ \E c \in Conns : InitPassThrough(c)
  \/ \E c \in Conns : InitImplicit(c)
  \/ \E c \in Conns : HandshakeDone(c)
  \/ \E c \in Conns : LiveWantRead(c)
  \/ \E c \in Conns : HandshakeFails(c)
  \/ \E c \in Conns : LiveTick(c)
  \/ \E c \in Conns : SelectReadable(c)
  \/ \E c \in Conns : SelectTimeout(c)

\* The thread that runs __init__ keeps running: do_handshake returns or raises,
\* and select.select returns when the socket is readable or the time is up.
LiveFairness ==
  \A c \in Conns :
     /\ WF_vars(InitRaises(c) \/ InitPassThrough(c) \/ InitImplicit(c))
     /\ WF_vars(HandshakeDone(c) \/ LiveWantRead(c) \/ HandshakeFails(c))
     /\ WF_vars(LiveTick(c) \/ SelectReadable(c) \/ SelectTimeout(c))

SpecLive == Init /\ [][NextLive]_vars /\ LiveFairness

\* C15: every handshake that has started ends, in success or in failure,
\* whatever the peer does.
C15_EveryHandshakeTerminates ==
  \A c \in Conns :
     (conns[c].pc = "handshake") ~> (conns[c].pc \in {"returned", "raised"})

\* --------------------------------------------------- authorization registry
\* The values of --user and --password; "" is an option that is absent or
\* empty (both are false on line 131).
UserNames == {"alice", "bob"}
Passwords == {"pw1", "pw2"}
AuthOptions ==
  [user : UserNames \cup {""}, password : Passwords \cup {""},
   allow_anonymous : BOOLEAN]

\* line 131: `if args.user and args.password`
RegistersUser(a) == a.user # "" /\ a.password # ""

\* An anonymous entry whatever the command line says.
RegistersAnonymous_always(a) == TRUE
\* line 133: `if args.allow_anonymous`
RegistersAnonymous(a) == a.allow_anonymous

\* The registry's entries and its three operations.
UserEntry(u, p) == [anonymous |-> FALSE, username |-> u, password |-> p]
AnonymousEntry == [anonymous |-> TRUE, username |-> "anonymous", password |-> ""]
add_user(table, u, p) == table \cup {UserEntry(u, p)}
add_anonymous(table) == table \cup {AnonymousEntry}
\* resolve: the matching entry, if any; the password of an anonymous lookup
\* is not looked at.
resolve(table, q) ==
  IF q.anonymous
    THEN {e \in table : e.anonymous}
    ELSE {e \in table : ~e.anonymous /\ e.username = q.username
                          /\ e.password = q.password}

\* What a client may present: a known or unknown name with any password, or
\* an anonymous login with any password.
QueryNames == UserNames \cup {"carol"}
Queries ==
  [anonymous : {FALSE}, username : QueryNames, password : Passwords \cup {""}]
    \cup [anonymous : {TRUE}, username : {"anonymous"},
          password : Passwords \cup {""}]

InitAuth ==
  /\ InitServer
  /\ args = [drive_ok |-> TRUE, certfile |-> FALSE, keyfile |-> FALSE,
             ftps_mode |-> "none"]
  /\ pem = "ok"
  /\ auth_args \in AuthOptions

AuthFrame ==
  UNCHANGED <<args, pem, mpc, listening, implicit_tls, tls_control_required,
              tls_data_required, ctxVars, conns, harnessVars, gateVars>>

\* lines 130-135: main() fills the authorizer.
AuthRegister ==
  /\ apc = "args"
  /\ LET t0 == {}
         t1 == IF RegistersUser(auth_args)
                 THEN add_user(t0, auth_args.user, auth_args.password) ELSE t0
         t2 == IF RegistersAnonymous(auth_args) THEN add_anonymous(t1) ELSE t1
     IN  /\ user_table' = t2
         /\ startup_table' = t2
  /\ apc' = "serving"
  /\ UNCHANGED <<auth_args, lookup>>
  /\ AuthFrame

\* A login: the protocol handler asks the registry.
AuthLookup(q) ==
  /\ apc = "serving"
  /\ lookup' = [made |-> TRUE, anonymous |-> q.anonymous, username |-> q.username,
                password |-> q.password, result |-> resolve(user_table, q)]
  /\ UNCHANGED <<auth_args, apc, user_table, startup_table>>
  /\ AuthFrame

NextAuth ==
  \/ AuthRegister
  \/ \E q \in Queries : AuthLookup(q)

SpecAuth == InitAuth /\ [][NextAuth]_vars

\* C12: a lookup matches only what the start-up registered: a named lookup
\* matches exactly when --user and --password were both given and are the name
\* and password presented; an anonymous lookup matches exactly when
\* --allow-anonymous was given, whatever the password; and the registry stays
\* as the start-up left it.
C12_ResolveOnlyRegistered ==
  /\ apc = "serving" => user_table = startup_table
  /\ lookup.made =>
       /\ lookup.result \subseteq startup_table
       /\ IF lookup.anonymous
            THEN (lookup.result # {}) <=> auth_args.allow_anonymous
            ELSE (lookup.result # {}) <=>
                    /\ auth_args.user # ""
                    /\ auth_args.password # ""
                    /\ lookup.username = auth_args.user
                    /\ lookup.password = auth_args.password

\* A registered user presents a wrong password and gets no match, while the
\* registry holds that user's entry.
C12_Witness ==
  /\ lookup.made
  /\ ~lookup.anonymous
  /\ UserEntry(auth_args.user, auth_args.password) \in user_table
  /\ lookup.username = auth_args.user
  /\ lookup.password # auth_args.password
  /\ lookup.result = {}

====
